---- MODULE Spec2Model ----
(***************************************************************************)
(* Model of the PagerDuty "teams" adapter: request validation, the three   *)
(* page-fetch routines of the repository and the response parser.          *)
(*                                                                         *)
(*   adapter.go     (src/unnamed/part_000)  Adapter.GetPage,               *)
(*                                          RequestPageFromDatasource      *)
(*   datasource.go  (src/unnamed/part_001)  Datasource.GetPage with status *)
(*                                          check and ParseResponse        *)
(*   datasource.go  (src/pkg/adapter)       Datasource.GetPage reading the *)
(*                                          X-Next-Page header             *)
(*   config.go      (src/unnamed/part_002)  Config.Validate                *)
(*   validation.go  (src/pkg/adapter)       ValidateGetPageRequest         *)
(*                                                                         *)
(* Go strings that the code parses or formats (cursors) are sequences of   *)
(* one-character strings.  A nil error or nil *Auth is Nil; a pointer to a  *)
(* struct and a slice are records with a field "nil".                      *)
(***************************************************************************)
EXTENDS Integers, Sequences, FiniteSets, TLC

VARIABLES path, request, pc, resp, sent, nCalls, result, err, collection

vars == <<path, request, pc, resp, sent, nCalls, result, err, collection>>

Nil == "nil"

(***************************************************************************)
(* Bounds of the model.                                                    *)
(***************************************************************************)
\* The largest number of records a response body holds, besides the
\* 20-record page of the documented example.
MaxRecords == 3

\* The largest collection the paging server holds.
MaxCollection == 6

(***************************************************************************)
(* Program constants.                                                      *)
(***************************************************************************)
MaxPageSize == 100

StatusOK == 200

Teams == "teams"

\* ValidEntityExternalIDs: the registered entities and their unique ID attribute.
ValidEntityExternalIDs == [e \in {Teams} |-> [uniqueIDAttrExternalID |-> "id"]]

\* api_adapter_v1.ErrorCode values the code returns.
Internal == "ERROR_CODE_INTERNAL"
InvalidDatasourceConfig == "ERROR_CODE_INVALID_DATASOURCE_CONFIG"
InvalidEntityConfig == "ERROR_CODE_INVALID_ENTITY_CONFIG"
InvalidPageRequestConfig == "ERROR_CODE_INVALID_PAGE_REQUEST_CONFIG"
DatasourceFailed == "ERROR_CODE_DATASOURCE_FAILED"

ErrorCodes ==
  {Internal, InvalidDatasourceConfig, InvalidEntityConfig,
   InvalidPageRequestConfig, DatasourceFailed}

(***************************************************************************)
(* strconv.Atoi and strconv.Itoa on character sequences.                   *)
(***************************************************************************)
Digits == <<"0", "1", "2", "3", "4", "5", "6", "7", "8", "9">>

IsDigit(c) == \E i \in 1..10 : Digits[i] = c

DigitVal(c) == (CHOOSE i \in 1..10 : Digits[i] = c) - 1

\* The digit loop of Atoi: n = n*10 + (ch - '0'), left to right; a byte that
\* is no digit is a syntax error, reported here as -1.
RECURSIVE AtoiDigits(_, _)
AtoiDigits(s, n) ==
  IF s = <<>> THEN n
  ELSE IF ~IsDigit(Head(s)) THEN -1
  ELSE AtoiDigits(Tail(s), n * 10 + DigitVal(Head(s)))

\* strconv.Atoi: an optional leading '+' or '-', then at least one digit.
\* The result is [n, ok]; ok = FALSE is a non-nil error, and n is then 0.
Atoi(s) ==
  LET signed == s # <<>> /\ Head(s) \in {"+", "-"}
      body == IF signed THEN Tail(s) ELSE s
      n == IF body = <<>> THEN -1 ELSE AtoiDigits(body, 0)
  IN IF n < 0 THEN [n |-> 0, ok |-> FALSE]
     ELSE [n |-> IF signed /\ Head(s) = "-" THEN -n ELSE n, ok |-> TRUE]

\* The digit loop of Itoa: digits are produced from the least significant,
\* each put in front of those already written.
RECURSIVE ItoaDigits(_, _)
ItoaDigits(u, acc) ==
  IF u < 10 THEN <<Digits[u + 1]>> \o acc
  ELSE ItoaDigits(u \div 10, <<Digits[(u % 10) + 1]>> \o acc)

\* strconv.Itoa: the decimal digits, with '-' in front of a negative number.
Itoa(i) == IF i < 0 THEN <<"-">> \o ItoaDigits(-i, <<>>) ELSE ItoaDigits(i, <<>>)

(***************************************************************************)
(* Inputs.                                                                 *)
(***************************************************************************)
ConfigFields == {"APIVersion", "APIBaseURL", "AuthToken", "AcceptHeader", "ContentType"}

\* *Config values: no config (a nil pointer), the zero value, and every field
\* set except at most one.
NilConfig ==
  [nil |-> TRUE, APIVersion |-> "", APIBaseURL |-> "", AuthToken |-> "",
   AcceptHeader |-> "", ContentType |-> ""]

Configs ==
  {NilConfig} \cup
  {c \in [nil : {FALSE}, APIVersion : {"", "v"}, APIBaseURL : {"", "v"},
          AuthToken : {"", "v"}, AcceptHeader : {"", "v"}, ContentType : {"", "v"}] :
     Cardinality({f \in ConfigFields : c[f] = ""}) \in {0, 1, 5}}

\* request.Auth: nil, or its HTTPAuthorization.
Auths == {Nil, "", "tok"}

EntityExternalIds == {Teams, "users"}

\* request.Entity.Attributes, by external ID.
AttributeLists == {<<>>, <<"id">>, <<"name">>, <<"name", "id">>}

\* request.Entity.ChildEntities, by external ID.
ChildEntityLists == {<<>>, <<"members">>}

PageSizes == (-1 .. MaxRecords + 1) \cup {20, MaxPageSize, MaxPageSize + 1}

\* Request cursors: empty, decimal, signed, with a leading zero, non-numeric.
Cursors ==
  {<<>>, <<"0">>, <<"2">>, <<"4", "0">>, <<"0", "3">>, <<"-", "2">>,
   <<"+", "1">>, <<"x">>, <<"2", "x">>, <<"-">>}

\* framework.Request[Config] as GetPage receives it.
AdapterRequests ==
  [Config : Configs, Auth : Auths, EntityExternalId : EntityExternalIds,
   Attributes : AttributeLists, ChildEntities : ChildEntityLists,
   Ordered : BOOLEAN, PageSize : PageSizes, Cursor : Cursors]

(***************************************************************************)
(* Config.Validate: the error message, or Nil.                             *)
(***************************************************************************)
\* The switch takes the first case that holds.
Validate(c) ==
  IF c.nil THEN "request contains no config"
  ELSE IF c.APIVersion = "" THEN "apiVersion is not set"
  ELSE IF c.APIBaseURL = "" THEN "apiBaseURL is not set"
  ELSE IF c.AuthToken = "" THEN "authToken is not set"
  ELSE IF c.AcceptHeader = "" THEN "acceptHeader is not set"
  ELSE IF c.ContentType = "" THEN "contentType is not set"
  ELSE Nil

(***************************************************************************)
(* Adapter.ValidateGetPageRequest: the error code, or Nil.                 *)
(***************************************************************************)
\* The loop over request.Entity.Attributes looking for the attribute "id".
uniqueIDAttributeFound(attributes) ==
  \E i \in 1..Len(attributes) : attributes[i] = "id"

\* ValidateGetPageRequest with the page size check moved to the front.
ValidateGetPageRequest_PageSizeFirst(r) ==
  IF r.PageSize > MaxPageSize THEN InvalidPageRequestConfig
  ELSE IF Validate(r.Config) # Nil THEN InvalidDatasourceConfig
  ELSE IF r.Auth = Nil \/ r.Auth = "" THEN InvalidDatasourceConfig
  ELSE IF r.EntityExternalId \notin DOMAIN ValidEntityExternalIDs THEN InvalidEntityConfig
  ELSE IF ~uniqueIDAttributeFound(r.Attributes) THEN InvalidEntityConfig
  ELSE IF Len(r.ChildEntities) > 0 THEN InvalidEntityConfig
  ELSE IF r.Ordered THEN InvalidEntityConfig
  ELSE Nil

\* ValidateGetPageRequest without the page size check.
ValidateGetPageRequest_NoPageSize(r) ==
  IF Validate(r.Config) # Nil THEN InvalidDatasourceConfig
  ELSE IF r.Auth = Nil \/ r.Auth = "" THEN InvalidDatasourceConfig
  ELSE IF r.EntityExternalId \notin DOMAIN ValidEntityExternalIDs THEN InvalidEntityConfig
  ELSE IF ~uniqueIDAttributeFound(r.Attributes) THEN InvalidEntityConfig
  ELSE IF Len(r.ChildEntities) > 0 THEN InvalidEntityConfig
  ELSE IF r.Ordered THEN InvalidEntityConfig
  ELSE Nil

ValidateGetPageRequest(r) ==
  IF Validate(r.Config) # Nil THEN InvalidDatasourceConfig
  ELSE IF r.Auth = Nil \/ r.Auth = "" THEN InvalidDatasourceConfig
  ELSE IF r.EntityExternalId \notin DOMAIN ValidEntityExternalIDs THEN InvalidEntityConfig
  ELSE IF ~uniqueIDAttributeFound(r.Attributes) THEN InvalidEntityConfig
  ELSE IF Len(r.ChildEntities) > 0 THEN InvalidEntityConfig
  ELSE IF r.Ordered THEN InvalidEntityConfig
  ELSE IF r.PageSize > MaxPageSize THEN InvalidPageRequestConfig
  ELSE Nil

(***************************************************************************)
(* Slices, response bodies and the server's answers.                       *)
(***************************************************************************)
\* A Go slice: nil, or its items.  len() of a nil slice is 0.
NilSlice == [nil |-> TRUE, items |-> <<>>]

Slice(items) == [nil |-> FALSE, items |-> items]

\* The raw records of a page of n teams.
RawRecords(n) == [i \in 1..n |-> [id |-> i]]

RecordCounts == (0 .. MaxRecords) \cup {20}

\* A response body: not JSON of the expected shape, a JSON object without
\* "teams", one with "teams": null, or one with an array of n teams.
Bodies ==
  [kind : {"malformed", "noTeams", "nullTeams"}, n : {0}] \cup
  [kind : {"teams"}, n : RecordCounts]

\* json.Unmarshal(body, &data) into a DatasourceResponse: an absent or null
\* "teams" leaves data.Teams nil, an array (also the empty one) sets it.
Unmarshal(body) ==
  IF body.kind = "malformed" THEN [ok |-> FALSE, Teams |-> NilSlice]
  ELSE IF body.kind = "teams" THEN [ok |-> TRUE, Teams |-> Slice(RawRecords(body.n))]
  ELSE [ok |-> TRUE, Teams |-> NilSlice]

Statuses == {199, StatusOK, 204, 299, 300, 500}

RetryAfterValues == {"", "30"}

XNextPageValues == {<<>>, <<"7">>}

\* What Client.Do returns: an error (kind "error": no connection, timeout),
\* or a response whose body may fail to be read.
ServerResponses ==
  [kind : {"error"}, StatusCode : {0}, RetryAfter : {""}, XNextPage : {<<>>},
   readErr : {FALSE}, body : {[kind |-> "malformed", n |-> 0]}] \cup
  [kind : {"http"}, StatusCode : Statuses, RetryAfter : RetryAfterValues,
   XNextPage : XNextPageValues, readErr : BOOLEAN, body : Bodies]

NoResp ==
  [kind |-> "none", StatusCode |-> 0, RetryAfter |-> "", XNextPage |-> <<>>,
   readErr |-> FALSE, body |-> [kind |-> "malformed", n |-> 0]]

\* Client.Do has not returned: the server accepted the request and never
\* answers.
Silent ==
  [kind |-> "silent", StatusCode |-> 0, RetryAfter |-> "", XNextPage |-> <<>>,
   readErr |-> FALSE, body |-> [kind |-> "malformed", n |-> 0]]

\* Client.Do returned an error.
TransportError ==
  [kind |-> "error", StatusCode |-> 0, RetryAfter |-> "", XNextPage |-> <<>>,
   readErr |-> FALSE, body |-> [kind |-> "malformed", n |-> 0]]

\* What happens to a request that was sent.
DoOutcomes == ServerResponses \cup {Silent}

\* Where the call is once the request is out.
AfterDo(res) == IF res.kind = "silent" THEN "waiting" ELSE "responded"

\* The outbound request, as the server sees it.
NoSent == [url |-> <<>>, query |-> <<>>, Authorization |-> <<>>, Accept |-> ""]

\* *Response of the Client interface, and framework.Page for the entry point
\* (which sets Objects only).
NilResponse ==
  [nil |-> TRUE, StatusCode |-> 0, RetryAfterHeader |-> "", Objects |-> NilSlice,
   NextCursor |-> <<>>]

Response(status, retryAfter, objects, cursor) ==
  [nil |-> FALSE, StatusCode |-> status, RetryAfterHeader |-> retryAfter,
   Objects |-> objects, NextCursor |-> cursor]

(***************************************************************************)
(* ParseResponse (part_001): [objects, nextCursor, err].                   *)
(***************************************************************************)
\* ParseResponse deriving the cursor from the page size alone.
ParseResponse_IgnoresCursor(body, pageSize, cursor) ==
  LET data == Unmarshal(body) IN
  IF ~data.ok THEN [objects |-> NilSlice, nextCursor |-> <<>>, err |-> Internal]
  ELSE IF data.Teams.nil
    THEN [objects |-> NilSlice, nextCursor |-> <<>>, err |-> DatasourceFailed]
  ELSE IF Len(data.Teams.items) = pageSize
    THEN [objects |-> data.Teams, nextCursor |-> Itoa(pageSize), err |-> Nil]
  ELSE [objects |-> data.Teams, nextCursor |-> <<>>, err |-> Nil]

ParseResponse(body, pageSize, cursor) ==
  LET data == Unmarshal(body) IN
  IF ~data.ok THEN [objects |-> NilSlice, nextCursor |-> <<>>, err |-> Internal]
  ELSE IF data.Teams.nil
    THEN [objects |-> NilSlice, nextCursor |-> <<>>, err |-> DatasourceFailed]
  ELSE IF Len(data.Teams.items) = pageSize
    THEN [objects |-> data.Teams,
          nextCursor |-> Itoa(Atoi(cursor).n + pageSize), err |-> Nil]
  ELSE [objects |-> data.Teams, nextCursor |-> <<>>, err |-> Nil]

ParseRequests == [body : Bodies, pageSize : PageSizes, cursor : Cursors]

(***************************************************************************)
(* The entry point: Adapter.GetPage and RequestPageFromDatasource.         *)
(***************************************************************************)
\* web.HTTPError(statusCode, retryAfter): nil for a status in 200..299, else
\* an error whose code the framework chooses from the status (code).
HTTPError(statusCode, code) ==
  IF statusCode >= 200 /\ statusCode < 300 THEN Nil ELSE code

\* web.ConvertJSONObjectList: the typed objects of the raw records, or an
\* error when a value cannot be converted (failed).  A nil list converts to
\* no objects.
ConvertJSONObjectList(teams, failed) ==
  IF failed /\ Len(teams.items) > 0 THEN [ok |-> FALSE, objects |-> NilSlice]
  ELSE [ok |-> TRUE, objects |-> Slice(teams.items)]

\* The request RequestPageFromDatasource sends: a fixed URL, no query.
AdapterBuildRequest(r) ==
  [url |-> <<"https://api.pagerduty.com/teams">>, query |-> <<>>,
   Authorization |-> <<"Token token=", r.Auth>>, Accept |-> "application/json"]

\* What RequestPageFromDatasource returns for the server's answer.
RequestPageOutcome(r, res, code, failed) ==
  IF res.kind = "error" THEN [result |-> NilResponse, err |-> Internal]
  ELSE IF HTTPError(res.StatusCode, code) # Nil
    THEN [result |-> NilResponse, err |-> HTTPError(res.StatusCode, code)]
  ELSE IF res.readErr THEN [result |-> NilResponse, err |-> Internal]
  ELSE IF ~Unmarshal(res.body).ok THEN [result |-> NilResponse, err |-> Internal]
  ELSE LET parsed == ConvertJSONObjectList(Unmarshal(res.body).Teams, failed) IN
       IF ~parsed.ok THEN [result |-> NilResponse, err |-> Internal]
       ELSE [result |-> Response(0, "", parsed.objects, <<>>), err |-> Nil]

\* GetPage going on to the datasource whatever validation returned.
GetPage_Ungated ==
  /\ path = "GetPage" /\ pc = "start"
  /\ err' = ValidateGetPageRequest(request)
  /\ pc' = "fetch"
  /\ UNCHANGED <<collection, path, request, resp, sent, nCalls, result>>

\* Adapter.GetPage: validation, and on an error the error response.
GetPage ==
  /\ path = "GetPage" /\ pc = "start"
  /\ LET e == ValidateGetPageRequest(request) IN
       /\ err' = e
       /\ pc' = IF e # Nil THEN "done" ELSE "fetch"
  /\ UNCHANGED <<collection, path, request, resp, sent, nCalls, result>>

\* RequestPageFromDatasource up to http.DefaultClient.Do: the request is made
\* by http.NewRequest (no context) and sent by the default client (no
\* timeout), so the call waits for as long as the server stays silent.
RequestPageFromDatasource ==
  /\ path = "GetPage" /\ pc = "fetch"
  /\ sent' = AdapterBuildRequest(request)
  /\ nCalls' = nCalls + 1
  /\ \E res \in DoOutcomes : resp' = res /\ pc' = AfterDo(res)
  /\ UNCHANGED <<collection, path, request, result, err>>

\* RequestPageFromDatasource from the status check to its return.
RequestPageFromDatasource_Return ==
  /\ path = "GetPage" /\ pc = "responded"
  /\ \E code \in ErrorCodes, failed \in BOOLEAN :
       LET out == RequestPageOutcome(request, resp, code, failed) IN
         /\ result' = out.result
         /\ err' = out.err
  /\ pc' = "done"
  /\ UNCHANGED <<collection, path, request, resp, sent, nCalls>>

(***************************************************************************)
(* Datasource.GetPage, both versions.                                      *)
(***************************************************************************)
BaseURLs == {"https://api.pagerduty.com", "%zz"}

\* url.Parse fails on a malformed escape.
URLParses(fullURL) == fullURL[1] # "%zz"

Tokens == {"", "tok"}

\* Request of the Client interface.
DatasourceRequests ==
  [BaseURL : BaseURLs, EntityExternalID : EntityExternalIds, PageSize : PageSizes,
   Cursor : Cursors, Token : Tokens]

fullURL(r) == <<r.BaseURL, "/", r.EntityExternalID>>

\* The query string: limit when pageSize > 0, offset when the cursor is not
\* empty; Encode() writes the keys in sorted order.
Query(r) ==
  (IF r.PageSize > 0 THEN <<(<<"limit", Itoa(r.PageSize)>>)>> ELSE <<>>) \o
  (IF r.Cursor # <<>> THEN <<(<<"offset", r.Cursor>>)>> ELSE <<>>)

\* The early returns before the call: the error code, or Nil.
DatasourceEarlyError(r) ==
  IF ~URLParses(fullURL(r)) THEN Internal
  ELSE IF r.Token = "" THEN InvalidDatasourceConfig
  ELSE Nil

\* part_001: the Authorization header is the token itself.
OffsetBuildRequest(r) ==
  [url |-> fullURL(r), query |-> Query(r), Authorization |-> <<r.Token>>,
   Accept |-> "application/vnd.pagerduty+json;version=2"]

\* pkg/adapter/datasource.go: the Authorization header is "Token token=" + token.
HeaderBuildRequest(r) ==
  [url |-> fullURL(r), query |-> Query(r),
   Authorization |-> <<"Token token=", r.Token>>,
   Accept |-> "application/vnd.pagerduty+json;version=2"]

\* part_001, from Client.Do returning to the return.
OffsetOutcome(r, res) ==
  IF res.kind = "error" THEN [result |-> NilResponse, err |-> Internal]
  ELSE IF res.StatusCode # StatusOK
    THEN [result |-> Response(res.StatusCode, res.RetryAfter, NilSlice, <<>>),
          err |-> DatasourceFailed]
  ELSE IF res.readErr THEN [result |-> NilResponse, err |-> DatasourceFailed]
  ELSE IF r.EntityExternalID # Teams
    THEN [result |-> NilResponse, err |-> InvalidEntityConfig]
  ELSE LET parsed == ParseResponse(res.body, r.PageSize, r.Cursor) IN
       IF parsed.err # Nil THEN [result |-> NilResponse, err |-> parsed.err]
       ELSE [result |-> Response(res.StatusCode, res.RetryAfter, parsed.objects,
                                  parsed.nextCursor),
             err |-> Nil]

\* pkg/adapter/datasource.go, from Client.Do returning to the return: no
\* status check, no check of "teams", the cursor is the X-Next-Page header.
HeaderOutcome(r, res) ==
  IF res.kind = "error" THEN [result |-> NilResponse, err |-> Internal]
  ELSE IF res.readErr THEN [result |-> NilResponse, err |-> Internal]
  ELSE IF ~Unmarshal(res.body).ok THEN [result |-> NilResponse, err |-> Internal]
  ELSE [result |-> Response(0, "", Unmarshal(res.body).Teams,
                             IF res.XNextPage # <<>> THEN res.XNextPage ELSE <<>>),
        err |-> Nil]

\* Datasource.GetPage up to the token check (either version).
Datasource_GetPage ==
  /\ path \in {"OffsetDatasource", "HeaderDatasource"} /\ pc = "start"
  /\ LET e == DatasourceEarlyError(request) IN
       /\ err' = e
       /\ pc' = IF e # Nil THEN "done" ELSE "fetch"
  /\ UNCHANGED <<collection, path, request, resp, sent, nCalls, result>>

\* d.Client.Do(req).
Datasource_Do ==
  /\ path \in {"OffsetDatasource", "HeaderDatasource"} /\ pc = "fetch"
  /\ sent' = IF path = "OffsetDatasource" THEN OffsetBuildRequest(request)
             ELSE HeaderBuildRequest(request)
  /\ nCalls' = nCalls + 1
  /\ \E res \in DoOutcomes : resp' = res /\ pc' = AfterDo(res)
  /\ UNCHANGED <<collection, path, request, result, err>>

\* apiCtx is done while d.Client.Do waits: its 5 second timeout fires, or
\* the caller's ctx is cancelled or reaches its deadline before that.
\* Client.Do returns the context's error.
Datasource_ContextDone ==
  /\ path \in {"OffsetDatasource", "HeaderDatasource"} /\ pc = "waiting"
  /\ resp' = TransportError
  /\ pc' = "responded"
  /\ UNCHANGED <<collection, path, request, sent, nCalls, result, err>>

OffsetDatasource_Return ==
  /\ path = "OffsetDatasource" /\ pc = "responded"
  /\ result' = OffsetOutcome(request, resp).result
  /\ err' = OffsetOutcome(request, resp).err
  /\ pc' = "done"
  /\ UNCHANGED <<collection, path, request, resp, sent, nCalls>>

HeaderDatasource_Return ==
  /\ path = "HeaderDatasource" /\ pc = "responded"
  /\ result' = HeaderOutcome(request, resp).result
  /\ err' = HeaderOutcome(request, resp).err
  /\ pc' = "done"
  /\ UNCHANGED <<collection, path, request, resp, sent, nCalls>>

\* ParseResponse called on its own; result holds the objects and nextCursor
\* it returns.
ParseResponse_Call ==
  /\ path = "ParseResponse" /\ pc = "start"
  /\ LET parsed == ParseResponse(request.body, request.pageSize, request.cursor) IN
       /\ result' = Response(0, "", parsed.objects, parsed.nextCursor)
       /\ err' = parsed.err
  /\ pc' = "done"
  /\ UNCHANGED <<collection, path, request, resp, sent, nCalls>>

(***************************************************************************)
(* The specification.                                                      *)
(***************************************************************************)
Paths == {"GetPage", "OffsetDatasource", "HeaderDatasource", "ParseResponse"}

RequestsOf(p) ==
  IF p = "GetPage" THEN AdapterRequests
  ELSE IF p = "ParseResponse" THEN ParseRequests
  ELSE DatasourceRequests

Init ==
  /\ path \in Paths
  /\ request \in RequestsOf(path)
  /\ pc = "start"
  /\ resp = NoResp
  /\ sent = NoSent
  /\ nCalls = 0
  /\ result = NilResponse
  /\ err = Nil
  /\ collection = 0

Next ==
  \/ GetPage
  \/ RequestPageFromDatasource
  \/ RequestPageFromDatasource_Return
  \/ Datasource_GetPage
  \/ Datasource_Do
  \/ Datasource_ContextDone
  \/ OffsetDatasource_Return
  \/ HeaderDatasource_Return
  \/ ParseResponse_Call

Spec == Init /\ [][Next]_vars

\* A step that can be taken is taken: the code runs on, and the timer of
\* context.WithTimeout fires.  Whether the server answers is not a matter of
\* fairness: a silent server is an outcome of Client.Do.
LiveSpec == Spec /\ WF_vars(Next)

(***************************************************************************)
(* Pagination: a host that follows the cursors, against a server that      *)
(* serves a finite collection of teams by offset and limit.                *)
(***************************************************************************)
\* The value of a query parameter, or none when it is not sent.
HasParam(q, key) == \E i \in DOMAIN q : q[i][1] = key

ParamValue(q, key) == q[CHOOSE i \in DOMAIN q : q[i][1] = key][2]

\* GET /teams?limit=n&offset=k: the records from offset on, at most limit
\* of them, all of them when no limit is sent; status 200, no X-Next-Page.
ServePage(req, total) ==
  LET offset == IF HasParam(req.query, "offset")
                THEN Atoi(ParamValue(req.query, "offset")).n ELSE 0
      left == IF offset < 0 THEN total
              ELSE IF offset > total THEN 0 ELSE total - offset
      limit == IF HasParam(req.query, "limit")
               THEN Atoi(ParamValue(req.query, "limit")).n ELSE left
      count == IF limit < left THEN limit ELSE left
  IN [kind |-> "http", StatusCode |-> StatusOK, RetryAfter |-> "",
      XNextPage |-> <<>>, readErr |-> FALSE,
      body |-> [kind |-> "teams", n |-> count]]

\* The first call of a host: the empty cursor, a page size that validation
\* accepts, a token, the registered entity.
PagingRequests ==
  [BaseURL : {"https://api.pagerduty.com"}, EntityExternalID : {Teams},
   PageSize : {n \in PageSizes : n <= MaxPageSize}, Cursor : {<<>>},
   Token : {"tok"}]

PagingInit ==
  /\ path \in {"OffsetDatasource", "HeaderDatasource"}
  /\ request \in PagingRequests
  /\ collection \in 0 .. MaxCollection
  /\ pc = "start"
  /\ resp = NoResp
  /\ sent = NoSent
  /\ nCalls = 0
  /\ result = NilResponse
  /\ err = Nil

\* d.Client.Do(req), answered by the paging server.
Paging_Do ==
  /\ path \in {"OffsetDatasource", "HeaderDatasource"} /\ pc = "fetch"
  /\ sent' = IF path = "OffsetDatasource" THEN OffsetBuildRequest(request)
             ELSE HeaderBuildRequest(request)
  /\ nCalls' = nCalls + 1
  /\ resp' = ServePage(sent', collection)
  /\ pc' = "responded"
  /\ UNCHANGED <<collection, path, request, result, err>>

\* The host calls again with the cursor the last call returned; nothing of
\* the last call is kept but that cursor.
Host_NextCall ==
  /\ pc = "done" /\ err = Nil /\ result.NextCursor # <<>>
  /\ request' = [request EXCEPT !.Cursor = result.NextCursor]
  /\ pc' = "start"
  /\ resp' = NoResp
  /\ sent' = NoSent
  /\ nCalls' = 0
  /\ result' = NilResponse
  /\ UNCHANGED <<collection, path, err>>

PagingNext ==
  \/ Datasource_GetPage
  \/ Paging_Do
  \/ OffsetDatasource_Return
  \/ HeaderDatasource_Return
  \/ Host_NextCall

\* The host goes on calling for as long as it holds a cursor, and every
\* call runs to its return.
PagingSpec == PagingInit /\ [][PagingNext]_vars /\ WF_vars(PagingNext)

(***************************************************************************)
(* What the properties below read off a state.                             *)
(***************************************************************************)
Done == pc = "done"

IsDatasourcePath == path \in {"OffsetDatasource", "HeaderDatasource"}

\* The call got an HTTP response with status 200 and a readable body.
GotOKResponse == resp.kind = "http" /\ resp.StatusCode = StatusOK /\ ~resp.readErr

\* The verdict of validation as the entry point shows it: the error GetPage
\* returned without a call, or Nil when it went on to the datasource.
Verdict == IF Done /\ nCalls = 0 THEN err ELSE Nil

\* The seven checks of request validation, TRUE when the check passes.
Checks(r) ==
  << ~r.Config.nil /\ \A f \in ConfigFields : r.Config[f] # "",
     r.Auth \notin {Nil, ""},
     r.EntityExternalId = "teams",
     "id" \in {r.Attributes[i] : i \in DOMAIN r.Attributes},
     r.ChildEntities = <<>>,
     r.Ordered = FALSE,
     r.PageSize <= 100 >>

CheckCodes ==
  << InvalidDatasourceConfig, InvalidDatasourceConfig, InvalidEntityConfig,
     InvalidEntityConfig, InvalidEntityConfig, InvalidEntityConfig,
     InvalidPageRequestConfig >>

Failing(r) == {i \in DOMAIN CheckCodes : ~Checks(r)[i]}

FirstFailing(r) == CHOOSE i \in Failing(r) : \A j \in Failing(r) : i <= j

ExpectedVerdict(r) == IF Failing(r) = {} THEN Nil ELSE CheckCodes[FirstFailing(r)]

\* C1: on the entry point, an outbound request is only ever issued for a
\* request that validation accepts, and a request that validation rejects
\* ends with that error and no outbound request.
C1_ValidationGatesNetwork ==
  path = "GetPage" =>
    /\ (nCalls > 0 \/ sent # NoSent \/ resp # NoResp
          => ValidateGetPageRequest(request) = Nil)
    /\ (ValidateGetPageRequest(request) # Nil /\ pc # "start"
          => Done /\ err = ValidateGetPageRequest(request) /\ nCalls = 0)

C1_Witness ==
  /\ path = "GetPage" /\ Done
  /\ ValidateGetPageRequest(request) = InvalidEntityConfig
  /\ err = InvalidEntityConfig /\ nCalls = 0 /\ sent = NoSent

\* C2: validation returns the error code of the first failing check in the
\* order config, token, entity ID, attribute "id", childEntities,
\* orderedRequired, pageSize, and no error exactly when all seven pass.
C2_FirstFailingCheck ==
  path = "GetPage" /\ pc # "start" => Verdict = ExpectedVerdict(request)

C2_Witness ==
  /\ path = "GetPage" /\ Done
  /\ Failing(request) = {6, 7}
  /\ err = InvalidEntityConfig

\* C3 as stated: a page size above 100 fails with InvalidPageRequestConfig
\* whatever the other fields are.
C3_PageSizeRegardless ==
  path = "GetPage" /\ pc # "start" /\ request.PageSize > 100
    => Verdict = InvalidPageRequestConfig

\* C3 as amended: a page size above 100 always fails validation, with
\* InvalidPageRequestConfig when the other six checks pass and with the
\* code of the first failing earlier check otherwise.
C3_PageSizeAlwaysFails ==
  path = "GetPage" /\ pc # "start" /\ request.PageSize > 100
    => /\ Done /\ nCalls = 0 /\ err # Nil
       /\ (Failing(request) = {7} => err = InvalidPageRequestConfig)
       /\ (Failing(request) # {7} => err = CheckCodes[FirstFailing(request)])

C3_Witness ==
  /\ path = "GetPage" /\ Done
  /\ request.PageSize = 101 /\ Failing(request) = {7}
  /\ err = InvalidPageRequestConfig

(***************************************************************************)
(* The response a finished call handled, and the cursor the offset         *)
(* arithmetic of the specification gives.                                  *)
(***************************************************************************)
\* The body, page size and request cursor of the call.
CallBody == IF path = "ParseResponse" THEN request.body ELSE resp.body

CallPageSize == IF path = "ParseResponse" THEN request.pageSize ELSE request.PageSize

CallCursor == IF path = "ParseResponse" THEN request.cursor ELSE request.Cursor

\* The call parsed a body of the expected shape into a page: ParseResponse
\* on its own, or part_001's Datasource.GetPage after a 200 for "teams".
ParsedPage ==
  /\ Done /\ err = Nil
  /\ \/ path = "ParseResponse"
     \/ path = "OffsetDatasource" /\ GotOKResponse

RECURSIVE Pow10(_)
Pow10(k) == IF k = 0 THEN 1 ELSE 10 * Pow10(k - 1)

\* A string of one or more decimal digits, and the number it writes.
AllDigits(s) == s # <<>> /\ \A i \in DOMAIN s : s[i] \in {"0", "1", "2", "3", "4", "5", "6", "7", "8", "9"}

RECURSIVE SumTo(_, _)
SumTo(s, k) ==
  IF k = 0 THEN 0
  ELSE SumTo(s, k - 1) + DigitVal(s[k]) * Pow10(Len(s) - k)

DigitsValue(s) == SumTo(s, Len(s))

Unsigned(s) == IF s # <<>> /\ s[1] \in {"+", "-"} THEN Tail(s) ELSE s

\* The cursor names an integer: an optional sign, then digits.
IsNumeric(s) == AllDigits(Unsigned(s))

\* priorOffset: the cursor as an integer, 0 when it is empty or not numeric.
PriorOffset(s) ==
  IF ~IsNumeric(s) THEN 0
  ELSE IF s[1] = "-" THEN 0 - DigitsValue(Unsigned(s))
  ELSE DigitsValue(Unsigned(s))

\* s is the decimal string of n: no sign unless n < 0, no leading zero.
IsDecimalOf(s, n) ==
  LET u == IF n < 0 THEN Tail(s) ELSE s IN
  /\ s # <<>>
  /\ (n < 0) = (s[1] = "-")
  /\ AllDigits(u)
  /\ (Len(u) > 1 => u[1] # "0")
  /\ DigitsValue(u) = (IF n < 0 THEN 0 - n ELSE n)

\* The cursor of the offset arithmetic fits what was requested and returned.
IsOffsetCursor(next, cursor, pageSize, count) ==
  IF count = pageSize THEN IsDecimalOf(next, PriorOffset(cursor) + pageSize)
  ELSE next = <<>>

\* The call finished after reading the body of a 200 response for "teams"
\* (ParseResponse on its own: after being handed a body).
BodyReached ==
  /\ Done
  /\ (path = "ParseResponse" \/ GotOKResponse)
  /\ (IsDatasourcePath => request.EntityExternalID = "teams")

\* C4 as stated: Datasource.GetPage goes on to parsing for every status in
\* 200..299 (so a readable body with "teams" gives a page) and fails with
\* DatasourceFailed, carrying the status code and Retry-After, for every
\* other status.
C4_StatusClassification ==
  IsDatasourcePath /\ Done /\ resp.kind = "http" =>
    IF resp.StatusCode >= 200 /\ resp.StatusCode <= 299
    THEN (~resp.readErr /\ resp.body.kind = "teams" /\ request.EntityExternalID = "teams"
            => err = Nil /\ ~result.nil)
    ELSE /\ err = DatasourceFailed
         /\ result.StatusCode = resp.StatusCode
         /\ result.RetryAfterHeader = resp.RetryAfter

\* C5 as stated: on every fetch path a readable 200 response without
\* "teams" (absent or null) gives DatasourceFailed, and one with an empty
\* "teams" array gives a page of no objects.
C5_MissingCollectionFails ==
  BodyReached =>
    /\ (CallBody.kind \in {"noTeams", "nullTeams"} => err = DatasourceFailed)
    /\ (CallBody.kind = "teams" /\ CallBody.n = 0
          => err = Nil /\ ~result.Objects.nil /\ result.Objects.items = <<>>)

\* C6 as stated: every finished page fetch returns exactly one of a
\* non-nil result and a non-nil error.
C6_ErrorXorResult ==
  Done /\ path # "ParseResponse" => (result.nil = (err # Nil))

\* C7: when ParseResponse returns a page, nextCursor is the decimal string
\* of priorOffset + pageSize if the number of records equals pageSize and
\* is empty otherwise; cursor "40", pageSize 20 and 20 records give "60".
C7_OffsetCursor ==
  ParsedPage =>
    /\ IsOffsetCursor(result.NextCursor, CallCursor, CallPageSize, CallBody.n)
    /\ (CallCursor = <<"4", "0">> /\ CallPageSize = 20 /\ CallBody.n = 20
          => result.NextCursor = <<"6", "0">>)

C7_Witness ==
  /\ ParsedPage /\ path = "ParseResponse"
  /\ CallCursor = <<"4", "0">> /\ CallPageSize = 20 /\ CallBody.n = 20
  /\ result.NextCursor = <<"6", "0">>

\* C8 as stated: a present but empty collection gives an empty nextCursor
\* for every page size validation accepts and every request cursor.
C8_EmptyCollectionEmptyCursor ==
  ParsedPage /\ CallBody.n = 0 /\ CallPageSize <= 100 => result.NextCursor = <<>>

\* C9 as stated: the page the entry point returns carries the next cursor
\* derived for the response; pageSize 2, empty cursor and 2 records give "2".
C9_EntryPointCursor ==
  path = "GetPage" /\ Done /\ err = Nil /\ resp.body.kind = "teams" =>
    /\ IsOffsetCursor(result.NextCursor, request.Cursor, request.PageSize, resp.body.n)
    /\ (request.Cursor = <<>> /\ request.PageSize = 2 /\ resp.body.n = 2
          => result.NextCursor = <<"2">>)

\* C10 as stated: a successful Datasource.GetPage returns the X-Next-Page
\* header when it is not empty and the cursor of the offset arithmetic
\* otherwise.
C10_CursorSelection ==
  IsDatasourcePath /\ Done /\ err = Nil /\ resp.body.kind = "teams" =>
    IF resp.XNextPage # <<>> THEN result.NextCursor = resp.XNextPage
    ELSE IsOffsetCursor(result.NextCursor, request.Cursor, request.PageSize, resp.body.n)

\* C11 as stated: every page fetch eventually returns, also against a
\* server that never responds, through the entry point as well as through
\* Datasource.GetPage.
C11_EventuallyReturns == <>Done

\* What the outbound request is built from: the base URL, entity, page size
\* and cursor of the call (the entry point's base URL is its config's).
CallBaseURL == IF path = "GetPage" THEN request.Config.APIBaseURL ELSE request.BaseURL

CallEntity == IF path = "GetPage" THEN request.EntityExternalId ELSE request.EntityExternalID

QueryParams == {sent.query[i] : i \in DOMAIN sent.query}

\* C12 as stated: the outbound GET targets baseURL + "/" + entityExternalId
\* and carries limit = pageSize exactly when pageSize > 0, offset = cursor
\* exactly when the cursor is not empty, and no other query parameter.
C12_OutboundRequest ==
  path # "ParseResponse" /\ sent # NoSent =>
    /\ sent.url = <<CallBaseURL, "/", CallEntity>>
    /\ Cardinality(QueryParams) = Len(sent.query)
    /\ \A p \in QueryParams :
         \/ p[1] = "limit" /\ CallPageSize > 0 /\ IsDecimalOf(p[2], CallPageSize)
         \/ p[1] = "offset" /\ CallCursor # <<>> /\ p[2] = CallCursor
    /\ (CallPageSize > 0 => \E p \in QueryParams : p[1] = "limit")
    /\ (CallCursor # <<>> => \E p \in QueryParams : p[1] = "offset")

\* The same for the two versions of Datasource.GetPage alone.
DatasourceOutboundRequest == IsDatasourcePath => C12_OutboundRequest

\* The caller's token: request.Auth.HTTPAuthorization, or request.Token.
CallToken == IF path = "GetPage" THEN request.Auth ELSE request.Token

\* C13 as stated: every outbound request carries the Authorization value
\* "Token token=" followed by the caller's token, and a call with an empty
\* token (and a base URL that parses) ends with InvalidDatasourceConfig and
\* no request sent.
C13_AuthorizationHeader ==
  path # "ParseResponse" =>
    /\ (sent # NoSent => sent.Authorization = <<"Token token=", CallToken>>)
    /\ (/\ CallToken = ""
        /\ pc # "start"
        /\ (IsDatasourcePath => URLParses(fullURL(request)))
        => Done /\ nCalls = 0 /\ sent = NoSent /\ err = InvalidDatasourceConfig)

\* The host received an empty nextCursor.
PaginationEnded == Done /\ err = Nil /\ result.NextCursor = <<>>

\* When the host passes on a cursor, it is a larger offset than the cursor
\* of the call that returned it.
CursorIncreases ==
  pc = "done" /\ pc' = "start" /\ request.Cursor # <<>>
    => PriorOffset(request'.Cursor) > PriorOffset(request.Cursor)

\* C14 as stated: a host that starts with the empty cursor and follows the
\* cursors, with a fixed page size that validation accepts, eventually
\* receives an empty nextCursor, and the non-empty cursors it passes on are
\* strictly increasing offsets.
C14_PaginationTerminates == <>PaginationEnded /\ [][CursorIncreases]_vars

\* The same for a page size other than 0.
PositivePagesTerminate ==
  <>(PaginationEnded \/ request.PageSize = 0) /\ [][request.PageSize # 0 => CursorIncreases]_vars

====
